---------------------------- MODULE Spec2Model ----------------------------
(***************************************************************************)
(* A model of the reusable stateful hooks of the React tutorial            *)
(* application: useTodos (src/src/App.tsx, second half), useFetch and      *)
(* useLocalStorage (src/unnamed/part_000, the custom-hooks page).          *)
(*                                                                         *)
(* React is modelled by what the hooks rely on: a state setter enqueues an *)
(* update and returns; the next render applies what was enqueued and hands *)
(* the resulting value to the closures of that render; effects whose       *)
(* dependencies changed run when the render is committed.  Strings are     *)
(* sequences of one-character strings so that trim, JSON.stringify and     *)
(* JSON.parse are computed and not assumed.                                *)
(***************************************************************************)
EXTENDS Integers, Sequences, FiniteSets, TLC

VARIABLES
    mounted,       \* a useTodos instance is alive
    todos,         \* the `todos` state as seen by the closures of the last render
    pending,       \* the update enqueued by setTodos and not rendered yet
    localStorage,  \* window.localStorage: key -> text, or Absent
    now,           \* Date.now()
    uncaught,      \* an exception escaped a hook of the todo page
    committed,     \* history: the call whose update the last render applied
    prevTodos,     \* history: `todos` before the last render
    calls,         \* history: the updates enqueued since the last render
    inOrder,       \* history: `todos` with those calls applied one after the other
    fault,         \* history: what the storage did to this instance ("none" if nothing)
    \* useFetch
    fetching,      \* a component calling useFetch is mounted
    url,           \* its [url, JSON.stringify(options)] dependencies
    data,          \* the `data` state
    loading,       \* the `loading` state
    error,         \* the `error` state
    requests,      \* the runs of the effect, each with its fetchData() call
    \* useLocalStorage
    lsMounted,     \* a component calling useLocalStorage is mounted
    key,           \* its `key` argument
    initialValue,  \* its `initialValue` argument
    storedValue,   \* the `storedValue` state as seen by the closures of the last render
    lsPending,     \* the update enqueued by setStoredValue and not rendered yet
    lsUncaught,    \* an exception escaped useLocalStorage
    untouched,         \* history: setValue has not been called since the mount
    readThrew,     \* history: getItem threw in the initialiser of this instance
    batch,         \* history: the setValue calls since the last render
    written,       \* history: key -> what setValue last stored under it
    \* useTimer and ApiPage's TimerComponent
    tmMounted,      \* a component calling useTimer is mounted
    initialSeconds, \* its `initialSeconds` argument
    seconds,        \* the `seconds` state of the last render
    isActive,       \* the `isActive` state of the last render
    nextSeconds,    \* `seconds` with the updates enqueued since that render
    nextIsActive,   \* `isActive` with the updates enqueued since that render
    interval,       \* the `interval` of the last run of useTimer's effect (0: null)
    intervals,      \* the browser's timers: every setInterval made so far
    tcMounted,      \* a TimerComponent is mounted
    tcSeconds,      \* its `seconds` state
    tcInterval,     \* the `interval` of its effect (0: none)
    elapsed,        \* history: the periods of 1000 ms that went by
    ticks,          \* history: callbacks of useTimer run since seconds was initialSeconds
    wasReset,       \* history: reset() was called and start() not since
    \* useWindowSize
    wsMounted,      \* a component calling useWindowSize is mounted
    windowSize,     \* the `windowSize` state of the last render
    nextWindowSize, \* `windowSize` with the updates enqueued since that render
    inner,          \* window.innerWidth and window.innerHeight
    listeners,      \* the window's listeners for "resize": the handleResize of effect runs
    handler,        \* the effect run whose handleResize the mounted component made (0: none)
    effectRuns,     \* history: the runs of the effect so far
    lastResize,     \* history: the last resize event and the setWindowSize calls it made
    \* ApiPage, the conditional fetch of a user
    apiMounted,     \* an ApiPage is mounted
    userId,         \* the `userId` state (0: null)
    user,           \* the `user` state
    userLoading,    \* the `userLoading` state
    userError,      \* the `userError` state
    runs            \* the runs of the effect on [userId] that called fetchUser()

todoVars == <<mounted, todos, pending, localStorage, now, uncaught, committed, prevTodos,
              calls, inOrder, fault>>

fetchVars == <<fetching, url, data, loading, error, requests>>

storageVars == <<lsMounted, key, initialValue, storedValue, lsPending, lsUncaught,
                 untouched, readThrew, batch, written>>

timerVars == <<tmMounted, initialSeconds, seconds, isActive, nextSeconds, nextIsActive,
               interval, intervals, tcMounted, tcSeconds, tcInterval, elapsed, ticks,
               wasReset>>

sizeVars == <<wsMounted, windowSize, nextWindowSize, inner, listeners, handler,
              effectRuns, lastResize>>

userVars == <<apiMounted, userId, user, userLoading, userError, runs>>

vars == <<todoVars, fetchVars, storageVars, timerVars, sizeVars, userVars>>

\* what the operations of useTodos leave alone
notTodos == <<fetchVars, storageVars, timerVars, sizeVars, userVars>>

\* what the steps of useFetch leave alone
notFetch == <<todoVars, storageVars, timerVars, sizeVars, userVars>>

\* what the steps of the timers leave alone
notTimer == <<todoVars, fetchVars, storageVars, sizeVars, userVars>>

\* what the steps of useWindowSize leave alone
notSize == <<todoVars, fetchVars, storageVars, timerVars, userVars>>

\* what the steps of ApiPage's user fetch leave alone
notUser == <<todoVars, fetchVars, storageVars, timerVars, sizeVars>>

\* what the operations of useLocalStorage leave alone (localStorage is theirs too)
notStorage == <<mounted, todos, pending, now, uncaught, committed, prevTodos, calls,
                inOrder, fault, fetchVars,
                timerVars, sizeVars, userVars>>

(***************************************************************************)
(* Bounds of the model.                                                    *)
(***************************************************************************)
MaxTodos == 2      \* addTodo is not called on a collection of this size
MaxTicks == 1      \* clock ticks observed
MaxRequests == 3   \* runs of the useFetch effect
FirstNow == 9      \* Date.now() when the model starts
MaxValueLen == 2   \* setValue is not called with a longer value
MaxBatch == 2      \* setValue calls between two renders
MaxIntervals == 3  \* setInterval calls
MaxElapsed == 3    \* periods of 1000 ms that go by
MaxUserRuns == 3   \* runs of ApiPage's effect on [userId] that fetch
MaxEffectRuns == 4 \* mounts of a component calling useWindowSize

(***************************************************************************)
(* Strings.                                                                *)
(***************************************************************************)
WhiteSpace == {" ", "\t"}

\* The arguments tried for text / newText: empty, whitespace only, plain,
\* padded, and a quote, inner whitespace and a backslash.
Texts ==
    { <<>>,
      <<" ", "\t">>,
      <<" ", "a", "\t">>,
      <<"\"", " ", "\\">> }

\* getItem's null for a key that holds nothing: a piece no text contains
Absent == <<"null">>

\* the keys the application stores under
StorageKeys == {"todos", "favoriteColor", "theme"}

Min(S) == CHOOSE x \in S : \A y \in S : x <= y

Max(S) == CHOOSE x \in S : \A y \in S : y <= x

Last(s) == s[Len(s)]

\* String.prototype.trim
trim(s) ==
    LET keep == {i \in 1..Len(s) : s[i] \notin WhiteSpace}
    IN  IF keep = {} THEN <<>> ELSE SubSeq(s, Min(keep), Max(keep))

Digits == <<"0", "1", "2", "3", "4", "5", "6", "7", "8", "9">>

RECURSIVE toString(_)
\* Number.prototype.toString on a non-negative integer
toString(n) ==
    IF n < 10 THEN <<Digits[n + 1]>>
    ELSE Append(toString(n \div 10), Digits[(n % 10) + 1])


(***************************************************************************)
(* JSON.  A JSON text is modelled as the sequence of its lexical pieces:   *)
(* punctuation, the literals true and false, and inside a string one piece *)
(* per character, an escaped character being one piece.                    *)
(***************************************************************************)
Quote == "\""

\* JSON.stringify's quoting of one character of a string
escapeChar(c) ==
    IF c = "\"" THEN "\\\""
    ELSE IF c = "\\" THEN "\\\\"
    ELSE IF c = "\t" THEN "\\t"
    ELSE c

\* JSON.stringify of a string
stringifyString(s) ==
    <<Quote>> \o [i \in 1..Len(s) |-> escapeChar(s[i])] \o <<Quote>>

\* JSON.stringify of one Todo: its own properties in creation order
stringifyTodo(t) ==
    <<"{">> \o stringifyString(<<"id">>) \o <<":">> \o stringifyString(t.id)
    \o <<",">> \o stringifyString(<<"text">>) \o <<":">> \o stringifyString(t.text)
    \o <<",">> \o stringifyString(<<"completed">>) \o <<":">>
    \o <<IF t.completed THEN "true" ELSE "false">> \o <<"}">>

RECURSIVE stringifyItems(_, _)
stringifyItems(ts, i) ==
    IF i > Len(ts) THEN <<>>
    ELSE (IF i > 1 THEN <<",">> ELSE <<>>) \o stringifyTodo(ts[i])
         \o stringifyItems(ts, i + 1)

\* JSON.stringify of a Todo[]
JSONstringify(ts) == <<"[">> \o stringifyItems(ts, 1) \o <<"]">>

\* The parser's results: a value and the position after it, or a SyntaxError.
Parsed(v, next) == [ok |-> TRUE, val |-> v, next |-> next]

SyntaxError == [ok |-> FALSE, val |-> <<>>, next |-> 0]

RECURSIVE scanString(_, _, _)
\* the characters of a string, from position j up to the closing quote
scanString(s, j, acc) ==
    IF j > Len(s) THEN SyntaxError
    ELSE IF s[j] = Quote THEN Parsed(acc, j + 1)
    ELSE IF s[j] = "\\\"" THEN scanString(s, j + 1, Append(acc, "\""))
    ELSE IF s[j] = "\\\\" THEN scanString(s, j + 1, Append(acc, "\\"))
    ELSE IF s[j] = "\\t" THEN scanString(s, j + 1, Append(acc, "\t"))
    ELSE IF s[j] \in {"\\", "\t"} THEN SyntaxError
    ELSE scanString(s, j + 1, Append(acc, s[j]))

parseString(s, i) ==
    IF i > Len(s) \/ s[i] # Quote THEN SyntaxError ELSE scanString(s, i + 1, <<>>)

\* the piece at position i is tok
At(s, i, tok) == i <= Len(s) /\ s[i] = tok

\* "key": at position i
parseKey(s, i, prop) ==
    LET k == parseString(s, i)
    IN  IF k.ok /\ k.val = <<prop>> /\ At(s, k.next, ":")
        THEN Parsed(prop, k.next + 1) ELSE SyntaxError

\* one object {"id":string,"text":string,"completed":boolean}
parseTodo(s, i) ==
    IF ~At(s, i, "{") THEN SyntaxError ELSE
    LET k1 == parseKey(s, i + 1, "id") IN
    IF ~k1.ok THEN SyntaxError ELSE
    LET v1 == parseString(s, k1.next) IN
    IF ~v1.ok \/ ~At(s, v1.next, ",") THEN SyntaxError ELSE
    LET k2 == parseKey(s, v1.next + 1, "text") IN
    IF ~k2.ok THEN SyntaxError ELSE
    LET v2 == parseString(s, k2.next) IN
    IF ~v2.ok \/ ~At(s, v2.next, ",") THEN SyntaxError ELSE
    LET k3 == parseKey(s, v2.next + 1, "completed") IN
    IF ~k3.ok THEN SyntaxError ELSE
    IF ~(At(s, k3.next, "true") \/ At(s, k3.next, "false")) THEN SyntaxError ELSE
    IF ~At(s, k3.next + 1, "}") THEN SyntaxError ELSE
    Parsed([id |-> v1.val, text |-> v2.val, completed |-> (s[k3.next] = "true")],
           k3.next + 2)

RECURSIVE parseItems(_, _, _)
\* the elements of an array, the first of them at position i
parseItems(s, i, acc) ==
    LET t == parseTodo(s, i)
    IN  IF ~t.ok THEN SyntaxError
        ELSE IF At(s, t.next, ",") THEN parseItems(s, t.next + 1, Append(acc, t.val))
        ELSE IF At(s, t.next, "]") THEN Parsed(Append(acc, t.val), t.next + 1)
        ELSE SyntaxError

\* JSON.parse of a text holding an array of Todo objects; any other text is
\* a SyntaxError here.
JSONparse(s) ==
    IF ~At(s, 1, "[") THEN SyntaxError
    ELSE LET r == IF At(s, 2, "]") THEN Parsed(<<>>, 3) ELSE parseItems(s, 2, <<>>)
         IN  IF r.ok /\ r.next = Len(s) + 1 THEN r ELSE SyntaxError

(***************************************************************************)
(* useTodos.                                                               *)
(***************************************************************************)
\* The ids a caller may pass: every id the clock can have produced.
IdArgs == {toString(n) : n \in FirstNow..(FirstNow + MaxTicks)}

\* the useState initialiser: what is saved under 'todos', parsed, or []
\* (a null or empty text is falsy)
initialTodos(savedTodos) ==
    IF savedTodos = Absent \/ savedTodos = <<>> THEN Parsed(<<>>, 0)
    ELSE JSONparse(savedTodos)

\* the object literal of addTodo
newTodo(text, clock) ==
    [id |-> toString(clock), text |-> trim(text), completed |-> FALSE]

\* a variant of added: the new record is put first, [newTodo, ...todos]
addedFirst(ts, text, clock) == <<newTodo(text, clock)>> \o ts

\* [...todos, newTodo]
added(ts, text, clock) == Append(ts, newTodo(text, clock))

\* a variant of toggled: the flag is set, completed: true, and not flipped
toggledSet(ts, id) ==
    [i \in 1..Len(ts) |->
        IF ts[i].id = id THEN [ts[i] EXCEPT !.completed = TRUE] ELSE ts[i]]

\* todos.map(todo => todo.id === id ? {...todo, completed: !todo.completed} : todo)
toggled(ts, id) ==
    [i \in 1..Len(ts) |->
        IF ts[i].id = id THEN [ts[i] EXCEPT !.completed = ~ts[i].completed] ELSE ts[i]]

\* a variant of edited: the text is stored as typed, without trim()
editedRaw(ts, id, newText) ==
    [i \in 1..Len(ts) |->
        IF ts[i].id = id THEN [ts[i] EXCEPT !.text = newText] ELSE ts[i]]

\* a variant of edited: the record is rebuilt without the spread, as a new
\* record {id, text, completed: false}
editedRebuilt(ts, id, newText) ==
    [i \in 1..Len(ts) |->
        IF ts[i].id = id
        THEN [id |-> ts[i].id, text |-> trim(newText), completed |-> FALSE]
        ELSE ts[i]]

\* todos.map(todo => todo.id === id ? {...todo, text: newText.trim()} : todo)
edited(ts, id, newText) ==
    [i \in 1..Len(ts) |->
        IF ts[i].id = id THEN [ts[i] EXCEPT !.text = trim(newText)] ELSE ts[i]]

\* a variant of deleted: the test is inverted, todo.id === id
deletedInverted(ts, id) == SelectSeq(ts, LAMBDA t : t.id = id)

\* todos.filter(todo => todo.id !== id)
deleted(ts, id) == SelectSeq(ts, LAMBDA t : t.id # id)

\* a variant of cleared: only the first completed record is removed
clearedFirst(ts) ==
    LET done == {i \in 1..Len(ts) : ts[i].completed}
    IN  IF done = {} THEN ts
        ELSE SubSeq(ts, 1, Min(done) - 1) \o SubSeq(ts, Min(done) + 1, Len(ts))

\* todos.filter(todo => !todo.completed)
cleared(ts) == SelectSeq(ts, LAMBDA t : ~t.completed)

\* a variant of statsOf: active counts every record
statsOfAll(ts) ==
    [total     |-> Len(ts),
     completed |-> Len(SelectSeq(ts, LAMBDA t : t.completed)),
     active    |-> Len(ts)]

\* the stats object of a render
statsOf(ts) ==
    [total     |-> Len(ts),
     completed |-> Len(SelectSeq(ts, LAMBDA t : t.completed)),
     active    |-> Len(SelectSeq(ts, LAMBDA t : ~t.completed))]

stats == statsOf(todos)

\* a variant of saved: the effect saves the todos of the render before
savedStale(ts) == JSONstringify(todos)

\* what the persistence effect writes
saved(ts) == JSONstringify(ts)

Call(op, id, text) == [op |-> op, id |-> id, text |-> text]

NoCall == Call("none", <<>>, <<>>)

NoUpdate == [set |-> FALSE, call |-> NoCall, value |-> <<>>]

\* setTodos(value), called by `call`: React enqueues the update.  Every
\* update of useTodos replaces the state, so of the updates enqueued since
\* the last render only the latest is kept here.  `ordered` is what the call
\* makes of the collection the calls before it left.
setTodos(call, value, ordered) ==
    /\ calls < MaxBatch
    /\ pending' = [set |-> TRUE, call |-> call, value |-> value]
    /\ calls' = calls + 1
    /\ inOrder' = ordered
    /\ UNCHANGED <<mounted, todos, localStorage, now, uncaught, committed, prevTodos,
                   fault>>
    /\ UNCHANGED notTodos

addTodo(text) ==
    /\ mounted
    /\ Len(todos) < MaxTodos
    /\ IF trim(text) = <<>>
       THEN UNCHANGED vars
       ELSE setTodos(Call("addTodo", <<>>, text), added(todos, text, now),
                     added(inOrder, text, now))

toggleTodo(id) ==
    /\ mounted
    /\ setTodos(Call("toggleTodo", id, <<>>), toggled(todos, id), toggled(inOrder, id))

editTodo(id, newText) ==
    /\ mounted
    /\ IF trim(newText) = <<>>
       THEN UNCHANGED vars
       ELSE setTodos(Call("editTodo", id, newText), edited(todos, id, newText),
                     edited(inOrder, id, newText))

deleteTodo(id) ==
    /\ mounted
    /\ setTodos(Call("deleteTodo", id, <<>>), deleted(todos, id), deleted(inOrder, id))

clearCompleted ==
    /\ mounted
    /\ setTodos(Call("clearCompleted", <<>>, <<>>), cleared(todos), cleared(inOrder))

\* React renders the component again: the enqueued update is applied, the
\* closures of the new render see the new todos, and the effect on [todos]
\* runs (every update is a new array) and saves them.
Render ==
    /\ mounted
    /\ pending.set
    /\ todos' = pending.value
    /\ pending' = NoUpdate
    /\ localStorage' = [localStorage EXCEPT !["todos"] = saved(todos')]
    /\ committed' = pending.call
    /\ prevTodos' = todos
    /\ calls' = 0
    /\ inOrder' = todos'
    /\ UNCHANGED <<mounted, now, uncaught, fault>>
    /\ UNCHANGED notTodos

\* The same render, with setItem throwing in the effect: nothing catches
\* the exception, and React unmounts the tree of a component whose effect
\* threw.
RenderThrows ==
    /\ mounted
    /\ pending.set
    /\ mounted' = FALSE
    /\ uncaught' = TRUE
    /\ fault' = "write"
    /\ todos' = <<>>
    /\ pending' = NoUpdate
    /\ committed' = pending.call
    /\ prevTodos' = todos
    /\ calls' = 0
    /\ inOrder' = <<>>
    /\ UNCHANGED <<localStorage, now>>
    /\ UNCHANGED notTodos

\* the texts other code, or an earlier version of the page, may have left
\* under 'todos': JSON that was cut short
CutShort == { <<"[">>, <<"[", "{">> }

\* Such a text is left under 'todos' while no component is mounted.
CorruptTodos(text) ==
    /\ ~mounted
    /\ ~uncaught
    /\ localStorage["todos"] # text
    /\ localStorage' = [localStorage EXCEPT !["todos"] = text]
    /\ UNCHANGED <<mounted, todos, pending, now, uncaught, committed, prevTodos, calls,
                   inOrder, fault>>
    /\ UNCHANGED notTodos

\* A component calling useTodos() mounts: the initialiser reads the storage,
\* and the effect runs after the first render.  A SyntaxError of JSON.parse
\* is not caught by the initialiser.
Mount ==
    /\ ~mounted
    /\ ~uncaught
    /\ LET init == initialTodos(localStorage["todos"])
       IN  IF init.ok
           THEN /\ mounted' = TRUE
                /\ todos' = init.val
                /\ localStorage' = [localStorage EXCEPT !["todos"] = saved(todos')]
                /\ fault' = "none"
                /\ UNCHANGED uncaught
           ELSE /\ uncaught' = TRUE
                /\ fault' = "read"
                /\ UNCHANGED <<mounted, todos, localStorage>>
    /\ pending' = NoUpdate
    /\ committed' = NoCall
    /\ prevTodos' = <<>>
    /\ calls' = 0
    /\ inOrder' = todos'
    /\ UNCHANGED now
    /\ UNCHANGED notTodos

\* The component unmounts: its state and its enqueued update are dropped.
Unmount ==
    /\ mounted
    /\ mounted' = FALSE
    /\ todos' = <<>>
    /\ pending' = NoUpdate
    /\ committed' = NoCall
    /\ prevTodos' = <<>>
    /\ calls' = 0
    /\ inOrder' = <<>>
    /\ fault' = "none"
    /\ UNCHANGED <<localStorage, now, uncaught>>
    /\ UNCHANGED notTodos

\* A millisecond passes.
Tick ==
    /\ now < FirstNow + MaxTicks
    /\ now' = now + 1
    /\ UNCHANGED <<mounted, todos, pending, localStorage, uncaught, committed, prevTodos,
                   calls, inOrder, fault>>
    /\ UNCHANGED notTodos

InitTodos ==
    /\ mounted = FALSE
    /\ todos = <<>>
    /\ pending = NoUpdate
    /\ localStorage = [k \in StorageKeys |-> Absent]
    /\ now = FirstNow
    /\ uncaught = FALSE
    /\ committed = NoCall
    /\ prevTodos = <<>>
    /\ calls = 0
    /\ inOrder = <<>>
    /\ fault = "none"

NextTodos ==
    \/ Mount
    \/ Unmount
    \/ Tick
    \/ Render
    \/ \E text \in Texts : addTodo(text)
    \/ \E id \in IdArgs : toggleTodo(id)
    \/ \E id \in IdArgs, newText \in Texts : editTodo(id, newText)
    \/ \E id \in IdArgs : deleteTodo(id)
    \/ clearCompleted

\* useTodos on a storage that fails, or that holds what useTodos did not write
NextTodosFaulty ==
    \/ NextTodos
    \/ RenderThrows
    \/ \E text \in CutShort : CorruptTodos(text)


(***************************************************************************)
(* useFetch.  Each run of the effect has its own isMounted flag and its    *)
(* own fetchData() call, which is suspended at `await fetch(...)`, then at *)
(* `await response.json()`, and then has returned.  The effect runs when   *)
(* the component mounts and whenever [url, JSON.stringify(options)]        *)
(* changes; the cleanup of the run before clears that run's flag.          *)
(***************************************************************************)
Keys == {"A", "B"}

\* the response statuses a request may get
Statuses == {200, 404}

NoData == [req |-> 0, key |-> "none"]

NoError == [req |-> 0, name |-> "none", status |-> 0, message |-> <<>>]

\* the characters of `HTTP error! Status: `
HttpErrorPrefix ==
    <<"H", "T", "T", "P", " ", "e", "r", "r", "o", "r", "!", " ",
      "S", "t", "a", "t", "u", "s", ":", " ">>

\* `HTTP error! Status: ${response.status}`
httpMessage(status) == HttpErrorPrefix \o toString(status)

\* what response.json() of request i yields
Json(i) == [req |-> i, key |-> requests[i].key]

\* new Error(`HTTP error! Status: ${response.status}`), thrown by request i
HttpError(i, status) ==
    [req |-> i, name |-> "Error", status |-> status, message |-> httpMessage(status)]

\* the rejection of fetch() (a TypeError) or of response.json() (a
\* SyntaxError); its message is the browser's and is left empty
Rejection(i, name) == [req |-> i, name |-> name, status |-> 0, message |-> <<>>]

\* a check that takes every response for a success
responseOkAlways(status) == TRUE

\* response.ok
responseOk(status) == 200 <= status /\ status <= 299

\* A run of the effect: its key, its isMounted flag and the await its
\* fetchData() is suspended at; as history, how it ended and as which of
\* the requests to end (0 while it is suspended), and the status of its
\* response (0 while it has none).
Request(k) ==
    [key |-> k, isMounted |-> TRUE, at |-> "fetch", outcome |-> "none", rank |-> 0,
     status |-> 0]

\* the effect body up to the first await: a new flag, setLoading(true),
\* fetch(url, options)
startFetch(k) ==
    /\ loading' = TRUE
    /\ requests' = Append(requests, Request(k))

\* the cleanup of the effect: isMounted = false in the run it belongs to
cleanup(rs) ==
    [i \in 1..Len(rs) |->
        IF i = Len(rs) THEN [rs[i] EXCEPT !.isMounted = FALSE] ELSE rs[i]]

\* a variant of onSuccess: the writes are not guarded by isMounted
onSuccessUnguarded(i) ==
    /\ data' = Json(i)
    /\ error' = NoError

\* after `await response.json()`: if (isMounted) { setData(json); setError(null) }
onSuccess(i) ==
    IF requests[i].isMounted
    THEN /\ data' = Json(i)
         /\ error' = NoError
    ELSE UNCHANGED <<data, error>>

\* a variant of onCatch: the error is stored and the data kept
onCatchKeepsData(i, err) ==
    IF requests[i].isMounted
    THEN /\ error' = err
         /\ UNCHANGED data
    ELSE UNCHANGED <<data, error>>

\* a variant of onCatch: the writes are not guarded by isMounted
onCatchUnguarded(i, err) ==
    /\ error' = err
    /\ data' = NoData

\* catch (err): if (isMounted) { setError(err); setData(null) }
onCatch(i, err) ==
    IF requests[i].isMounted
    THEN /\ error' = err
         /\ data' = NoData
    ELSE UNCHANGED <<data, error>>

\* a variant of onFinally: not guarded by isMounted
onFinallyUnguarded(i) == loading' = FALSE

\* finally: if (isMounted) setLoading(false)
onFinally(i) ==
    IF requests[i].isMounted THEN loading' = FALSE ELSE UNCHANGED loading

\* fetch() of request i resolved with a response of this status
responded(i, status) == [requests EXCEPT ![i].status = status]

\* fetchData() of request i returns
returnedFrom(rs, i, outcome) ==
    [rs EXCEPT
        ![i].at = "done",
        ![i].outcome = outcome,
        ![i].rank = 1 + Cardinality({j \in 1..Len(rs) : rs[j].at = "done"})]

returned(i, outcome) == requests' = returnedFrom(requests, i, outcome)

\* The component calling useFetch mounts: the states get their initial
\* values and the effect runs.
MountFetch(k) ==
    /\ ~fetching
    /\ Len(requests) < MaxRequests
    /\ fetching' = TRUE
    /\ url' = k
    /\ data' = NoData
    /\ error' = NoError
    /\ startFetch(k)
    /\ UNCHANGED notFetch

\* The component renders with another url or other options: the cleanup of
\* the last run, then the effect again.
ChangeKey(k) ==
    /\ fetching
    /\ k # url
    /\ Len(requests) < MaxRequests
    /\ url' = k
    /\ loading' = TRUE
    /\ requests' = Append(cleanup(requests), Request(k))
    /\ UNCHANGED <<fetching, data, error>>
    /\ UNCHANGED notFetch

\* The component unmounts: the cleanup of the last run.
UnmountFetch ==
    /\ fetching
    /\ fetching' = FALSE
    /\ requests' = cleanup(requests)
    /\ UNCHANGED <<url, data, loading, error>>
    /\ UNCHANGED notFetch

\* fetch() of request i rejects (a network error): catch, finally.
FetchRejects(i) ==
    /\ requests[i].at = "fetch"
    /\ onCatch(i, Rejection(i, "TypeError"))
    /\ onFinally(i)
    /\ returned(i, "error")
    /\ UNCHANGED <<fetching, url>>
    /\ UNCHANGED notFetch

\* fetch() of request i resolves with a response: a status that is not ok
\* is thrown as an Error; otherwise fetchData awaits response.json().
FetchResolves(i, status) ==
    /\ requests[i].at = "fetch"
    /\ IF responseOk(status)
       THEN /\ requests' = [responded(i, status) EXCEPT ![i].at = "json"]
            /\ UNCHANGED <<data, loading, error>>
       ELSE /\ onCatch(i, HttpError(i, status))
            /\ onFinally(i)
            /\ requests' = returnedFrom(responded(i, status), i, "error")
    /\ UNCHANGED <<fetching, url>>
    /\ UNCHANGED notFetch

\* response.json() of request i resolves: the guarded writes, finally.
JsonResolves(i) ==
    /\ requests[i].at = "json"
    /\ onSuccess(i)
    /\ onFinally(i)
    /\ returned(i, "data")
    /\ UNCHANGED <<fetching, url>>
    /\ UNCHANGED notFetch

\* response.json() of request i rejects (the body is not JSON): catch, finally.
JsonRejects(i) ==
    /\ requests[i].at = "json"
    /\ onCatch(i, Rejection(i, "SyntaxError"))
    /\ onFinally(i)
    /\ returned(i, "error")
    /\ UNCHANGED <<fetching, url>>
    /\ UNCHANGED notFetch

\* request i settles at the await it is suspended at
Settles(i) ==
    \/ FetchRejects(i)
    \/ \E status \in Statuses : FetchResolves(i, status)
    \/ JsonResolves(i)
    \/ JsonRejects(i)

InitFetch ==
    /\ fetching = FALSE
    /\ url = "none"
    /\ data = NoData
    /\ loading = TRUE
    /\ error = NoError
    /\ requests = <<>>

NextFetch ==
    \/ \E k \in Keys : MountFetch(k)
    \/ \E k \in Keys : ChangeKey(k)
    \/ UnmountFetch
    \/ \E i \in 1..Len(requests) : FetchRejects(i)
    \/ \E i \in 1..Len(requests), status \in Statuses : FetchResolves(i, status)
    \/ \E i \in 1..Len(requests) : JsonResolves(i)
    \/ \E i \in 1..Len(requests) : JsonRejects(i)

(***************************************************************************)
(* useLocalStorage<string>.  The values are strings; the text stored under *)
(* the key is JSON.stringify of the value.  window.localStorage may throw  *)
(* on getItem and on setItem, and other code of the page (or the user) may *)
(* have left any text under the key.                                       *)
(***************************************************************************)
\* the keys useLocalStorage is called with
HookKeys == {"favoriteColor", "theme"}

\* the initialValue arguments tried
Defaults == { <<>>, <<"b">> }

\* the values passed to setValue
Colors == { <<"r">> }

\* the functions passed to setValue: val => val + c, one for each c
Updaters == { <<"!">>, <<"\"">> }

\* what other code may leave under a key: nothing, an empty text, a text
\* that is not JSON (the theme, stored as it is), a string that is not
\* closed, and the JSON of a string
OtherTexts ==
    { Absent, <<>>, <<"d", "a", "r", "k">>, <<Quote, "g">>, stringifyString(<<"g">>) }

\* JSON.parse of a text holding a string; any other text is a SyntaxError
\* here.
parseText(s) ==
    LET r == parseString(s, 1)
    IN  IF r.ok /\ r.next = Len(s) + 1 THEN r ELSE SyntaxError

\* what a function call hands back: a value, or an exception
Returned(v) == [threw |-> FALSE, val |-> v]

Thrown == [threw |-> TRUE, val |-> <<>>]

\* a useState initialiser that lets the exceptions of its body escape
initialiserUnguarded(item, getItemThrows, d) ==
    IF getItemThrows THEN Thrown
    ELSE IF item = Absent \/ item = <<>> THEN Returned(d)
    ELSE IF parseText(item).ok THEN Returned(parseText(item).val)
    ELSE Thrown

\* a useState initialiser that never looks at the storage
initialiserDefault(item, getItemThrows, d) == Returned(d)

\* the useState initialiser: getItem and JSON.parse of a truthy item inside
\* try, the catch returning initialValue
initialiser(item, getItemThrows, d) ==
    IF getItemThrows THEN Returned(d)
    ELSE IF item = Absent \/ item = <<>> THEN Returned(d)
    ELSE IF parseText(item).ok THEN Returned(parseText(item).val)
    ELSE Returned(d)

\* value instanceof Function ? value(storedValue) : value
valueToStore(isFunction, value, val) ==
    IF isFunction THEN val \o value ELSE value

\* the text setItem is given, without JSON.stringify
stringifiedRaw(v) == v

\* the text setItem is given
stringified(v) == stringifyString(v)

NoPending == [set |-> FALSE, value |-> <<>>]

NoWrite == [hook |-> FALSE, value |-> <<>>]

\* setStoredValue(v): React enqueues the update, replacing what was enqueued
setStoredValue(v) == lsPending' = [set |-> TRUE, value |-> v]

\* setItem threw in a setValue that writes before it updates the state
setItemThrewFirst(v) == UNCHANGED <<lsPending, localStorage, written, lsUncaught>>

\* setItem threw: the update is enqueued already, and the catch logs the
\* exception
setItemThrew(v) ==
    /\ setStoredValue(v)
    /\ UNCHANGED <<localStorage, written, lsUncaught>>

\* setItem returned
setItemDone(v) ==
    /\ setStoredValue(v)
    /\ localStorage' = [localStorage EXCEPT ![key] = stringified(v)]
    /\ written' = [written EXCEPT ![key] = [hook |-> TRUE, value |-> v]]
    /\ UNCHANGED lsUncaught

\* setValue(value), value being a function or not; setItem throws or not
setValue(isFunction, value, setItemThrows) ==
    /\ lsMounted
    /\ Len(batch) < MaxBatch
    /\ LET v == valueToStore(isFunction, value, storedValue)
       IN  /\ Len(v) <= MaxValueLen
           /\ IF setItemThrows THEN setItemThrew(v) ELSE setItemDone(v)
           /\ batch' = Append(batch, [isFunction |-> isFunction, value |-> value,
                                      stored |-> ~setItemThrows])
    /\ untouched' = FALSE
    /\ UNCHANGED <<lsMounted, key, initialValue, storedValue, readThrew>>
    /\ UNCHANGED notStorage

\* React renders the component again: the enqueued update is applied and
\* the closures of the new render see the new storedValue.
RenderStorage ==
    /\ lsMounted
    /\ lsPending.set
    /\ storedValue' = lsPending.value
    /\ lsPending' = NoPending
    /\ batch' = <<>>
    /\ UNCHANGED <<lsMounted, key, initialValue, lsUncaught, untouched, readThrew, written,
                   localStorage>>
    /\ UNCHANGED notStorage

\* A component calling useLocalStorage(k, d) mounts: the initialiser runs.
MountStorage(k, d, getItemThrows) ==
    /\ ~lsMounted
    /\ ~lsUncaught
    /\ LET r == initialiser(localStorage[k], getItemThrows, d)
       IN  IF r.threw
           THEN /\ lsUncaught' = TRUE
                /\ UNCHANGED <<lsMounted, key, initialValue, storedValue, readThrew>>
           ELSE /\ lsMounted' = TRUE
                /\ key' = k
                /\ initialValue' = d
                /\ storedValue' = r.val
                /\ readThrew' = getItemThrows
                /\ UNCHANGED lsUncaught
    /\ untouched' = TRUE
    /\ UNCHANGED <<lsPending, batch, written, localStorage>>
    /\ UNCHANGED notStorage

\* The component unmounts: its state and its enqueued update are dropped.
UnmountStorage ==
    /\ lsMounted
    /\ lsMounted' = FALSE
    /\ key' = "none"
    /\ initialValue' = <<>>
    /\ storedValue' = <<>>
    /\ lsPending' = NoPending
    /\ readThrew' = FALSE
    /\ batch' = <<>>
    /\ untouched' = TRUE
    /\ UNCHANGED <<lsUncaught, written, localStorage>>
    /\ UNCHANGED notStorage

\* Other code of the page, or the user, leaves a text under a key while no
\* component holds it.
OtherWrite(k, text) ==
    /\ ~lsMounted
    /\ localStorage[k] # text
    /\ localStorage' = [localStorage EXCEPT ![k] = text]
    /\ written' = [written EXCEPT ![k] = NoWrite]
    /\ UNCHANGED <<lsMounted, key, initialValue, storedValue, lsPending, lsUncaught,
                   untouched, readThrew, batch>>
    /\ UNCHANGED notStorage

InitStorage ==
    /\ lsMounted = FALSE
    /\ key = "none"
    /\ initialValue = <<>>
    /\ storedValue = <<>>
    /\ lsPending = NoPending
    /\ lsUncaught = FALSE
    /\ untouched = TRUE
    /\ readThrew = FALSE
    /\ batch = <<>>
    /\ written = [k \in HookKeys |-> NoWrite]

NextStorage ==
    \/ \E k \in HookKeys, d \in Defaults, getItemThrows \in BOOLEAN :
          MountStorage(k, d, getItemThrows)
    \/ UnmountStorage
    \/ RenderStorage
    \/ \E value \in Colors, setItemThrows \in BOOLEAN : setValue(FALSE, value, setItemThrows)
    \/ \E value \in Updaters, setItemThrows \in BOOLEAN : setValue(TRUE, value, setItemThrows)
    \/ \E k \in HookKeys, text \in OtherTexts : OtherWrite(k, text)

(***************************************************************************)
(* useTimer, and the TimerComponent of the API page.  The browser's timers *)
(* are kept in `intervals`; a timer's callback runs once in every period   *)
(* of 1000 ms until clearInterval is called on it.  useTimer's setters     *)
(* enqueue their updates; the next render applies them and, isActive being *)
(* the effect's only dependency, runs the cleanup of the last run and the  *)
(* effect again when isActive changed.                                     *)
(***************************************************************************)
\* the initialSeconds arguments tried: the default, and another
InitialSecondsArgs == {0, 2}

\* what setInterval makes: a timer, with the component that made it and, as
\* history, how many times clearInterval was called on it
Interval(owner) == [owner |-> owner, cleared |-> 0]

\* the timers of this component on which clearInterval was never called
Active(owner) ==
    {i \in 1..Len(intervals) : intervals[i].owner = owner /\ intervals[i].cleared = 0}

\* clearInterval(id)
clearInterval(ivs, id) == [ivs EXCEPT ![id].cleared = @ + 1]

\* a cleanup that leaves the timer running
cleanupTimerNone(ivs, id) == ivs

\* the cleanup of useTimer's effect: if (interval) clearInterval(interval)
cleanupTimer(ivs, id) == IF id # 0 THEN clearInterval(ivs, id) ELSE ivs

\* a callback that adds 1 to the seconds of the render it was made in
onTickStale(latest, rendered) == rendered + 1

\* the callback of useTimer's timer: setSeconds(seconds => seconds + 1)
onTick(latest, rendered) == latest + 1

RECURSIVE onTicks(_, _, _)
\* n callbacks, one after the other
onTicks(latest, rendered, n) ==
    IF n = 0 THEN latest ELSE onTicks(onTick(latest, rendered), rendered, n - 1)

\* what the steps of useTimer leave alone
notUseTimer == <<tcMounted, tcSeconds, tcInterval>>

\* start: setIsActive(true)
start ==
    /\ tmMounted
    /\ nextIsActive' = TRUE
    /\ wasReset' = FALSE
    /\ UNCHANGED <<tmMounted, initialSeconds, seconds, isActive, nextSeconds, interval,
                   intervals, elapsed, ticks>>
    /\ UNCHANGED <<notUseTimer, notTimer>>

\* pause: setIsActive(false)
pause ==
    /\ tmMounted
    /\ nextIsActive' = FALSE
    /\ UNCHANGED <<tmMounted, initialSeconds, seconds, isActive, nextSeconds, interval,
                   intervals, elapsed, ticks, wasReset>>
    /\ UNCHANGED <<notUseTimer, notTimer>>

\* reset: setIsActive(false); setSeconds(initialSeconds)
reset ==
    /\ tmMounted
    /\ nextIsActive' = FALSE
    /\ nextSeconds' = initialSeconds
    /\ ticks' = 0
    /\ wasReset' = TRUE
    /\ UNCHANGED <<tmMounted, initialSeconds, seconds, isActive, interval, intervals,
                   elapsed>>
    /\ UNCHANGED <<notUseTimer, notTimer>>

\* React renders the component again with the updates enqueued; when
\* isActive changed, the cleanup of the effect's last run and then the
\* effect: a new timer if isActive, and none otherwise.
RenderTimer ==
    /\ tmMounted
    /\ nextSeconds # seconds \/ nextIsActive # isActive
    /\ seconds' = nextSeconds
    /\ isActive' = nextIsActive
    /\ IF nextIsActive = isActive
       THEN UNCHANGED <<interval, intervals>>
       ELSE IF nextIsActive
       THEN /\ Len(intervals) < MaxIntervals
            /\ intervals' = Append(cleanupTimer(intervals, interval), Interval("useTimer"))
            /\ interval' = Len(intervals) + 1
       ELSE /\ intervals' = cleanupTimer(intervals, interval)
            /\ interval' = 0
    /\ UNCHANGED <<tmMounted, initialSeconds, nextSeconds, nextIsActive, elapsed, ticks,
                   wasReset>>
    /\ UNCHANGED <<notUseTimer, notTimer>>

\* A component calling useTimer(init) mounts: the effect runs with isActive
\* false and makes no timer.
MountTimer(init) ==
    /\ ~tmMounted
    /\ tmMounted' = TRUE
    /\ initialSeconds' = init
    /\ seconds' = init
    /\ nextSeconds' = init
    /\ isActive' = FALSE
    /\ nextIsActive' = FALSE
    /\ interval' = 0
    /\ ticks' = 0
    /\ wasReset' = FALSE
    /\ UNCHANGED <<intervals, elapsed>>
    /\ UNCHANGED <<notUseTimer, notTimer>>

\* The component unmounts: the cleanup of the effect's last run.
UnmountTimer ==
    /\ tmMounted
    /\ tmMounted' = FALSE
    /\ intervals' = cleanupTimer(intervals, interval)
    /\ interval' = 0
    /\ initialSeconds' = 0
    /\ seconds' = 0
    /\ nextSeconds' = 0
    /\ isActive' = FALSE
    /\ nextIsActive' = FALSE
    /\ ticks' = 0
    /\ wasReset' = FALSE
    /\ UNCHANGED elapsed
    /\ UNCHANGED <<notUseTimer, notTimer>>

\* A TimerComponent mounts: its effect makes a timer.
MountTimerComponent ==
    /\ ~tcMounted
    /\ Len(intervals) < MaxIntervals
    /\ tcMounted' = TRUE
    /\ tcSeconds' = 0
    /\ intervals' = Append(intervals, Interval("TimerComponent"))
    /\ tcInterval' = Len(intervals) + 1
    /\ UNCHANGED <<tmMounted, initialSeconds, seconds, isActive, nextSeconds, nextIsActive,
                   interval, elapsed, ticks, wasReset>>
    /\ UNCHANGED notTimer

\* The TimerComponent unmounts: the cleanup clears its timer.
UnmountTimerComponent ==
    /\ tcMounted
    /\ tcMounted' = FALSE
    /\ tcSeconds' = 0
    /\ intervals' = clearInterval(intervals, tcInterval)
    /\ tcInterval' = 0
    /\ UNCHANGED <<tmMounted, initialSeconds, seconds, isActive, nextSeconds, nextIsActive,
                   interval, elapsed, ticks, wasReset>>
    /\ UNCHANGED notTimer

\* 1000 ms go by: the callback of every timer that was not cleared runs.
\* TimerComponent's is setSeconds(prev => prev + 1).
Second ==
    /\ elapsed < MaxElapsed
    /\ elapsed' = elapsed + 1
    /\ IF tmMounted
       THEN /\ nextSeconds' = onTicks(nextSeconds, seconds, Cardinality(Active("useTimer")))
            /\ ticks' = ticks + Cardinality(Active("useTimer"))
       ELSE UNCHANGED <<nextSeconds, ticks>>
    /\ IF tcMounted
       THEN tcSeconds' = tcSeconds + Cardinality(Active("TimerComponent"))
       ELSE UNCHANGED tcSeconds
    /\ UNCHANGED <<tmMounted, initialSeconds, seconds, isActive, nextIsActive, interval,
                   intervals, tcMounted, tcInterval, wasReset>>
    /\ UNCHANGED notTimer

InitTimer ==
    /\ tmMounted = FALSE
    /\ initialSeconds = 0
    /\ seconds = 0
    /\ isActive = FALSE
    /\ nextSeconds = 0
    /\ nextIsActive = FALSE
    /\ interval = 0
    /\ intervals = <<>>
    /\ tcMounted = FALSE
    /\ tcSeconds = 0
    /\ tcInterval = 0
    /\ elapsed = 0
    /\ ticks = 0
    /\ wasReset = FALSE

NextTimer ==
    \/ \E init \in InitialSecondsArgs : MountTimer(init)
    \/ UnmountTimer
    \/ start
    \/ pause
    \/ reset
    \/ RenderTimer
    \/ MountTimerComponent
    \/ UnmountTimerComponent
    \/ Second

(***************************************************************************)
(* useWindowSize.  The window keeps the listeners added for "resize" as a  *)
(* set (adding a function twice keeps it once); a resize event changes     *)
(* innerWidth and innerHeight and calls every listener.  Each run of the   *)
(* effect makes its own handleResize.                                      *)
(***************************************************************************)
\* the dimensions the window takes
Sizes ==
    { [width |-> 800, height |-> 600],
      [width |-> 1024, height |-> 768],
      [width |-> 360, height |-> 640],
      [width |-> 640, height |-> 360] }

\* { width: undefined, height: undefined }
Unmeasured == [width |-> 0, height |-> 0]

\* no resize event yet
NoResize == [seen |-> FALSE, updates |-> 0]

\* handleResize: the state is set to window.innerWidth and
\* window.innerHeight
measured(size) == [width |-> size.width, height |-> size.height]

\* an effect that leaves the state as it is until the first resize event
measuredLater(size) == Unmeasured

\* the effect calls handleResize() right away
measuredAtOnce(size) == measured(size)

\* a cleanup that removes nothing
removedNone(ls, h) == ls

\* window.removeEventListener("resize", handleResize)
removed(ls, h) == ls \ {h}

\* A component calling useWindowSize mounts: the first render has the
\* state unmeasured, then the effect adds its handleResize and calls it.
MountWindowSize ==
    /\ ~wsMounted
    /\ effectRuns < MaxEffectRuns
    /\ wsMounted' = TRUE
    /\ effectRuns' = effectRuns + 1
    /\ handler' = effectRuns + 1
    /\ listeners' = listeners \cup {effectRuns + 1}
    /\ windowSize' = Unmeasured
    /\ nextWindowSize' = measuredAtOnce(inner)
    /\ lastResize' = NoResize
    /\ UNCHANGED inner
    /\ UNCHANGED notSize

\* React renders the component again with the update enqueued.
RenderWindowSize ==
    /\ wsMounted
    /\ nextWindowSize # windowSize
    /\ windowSize' = nextWindowSize
    /\ UNCHANGED <<wsMounted, nextWindowSize, inner, listeners, handler, effectRuns,
                   lastResize>>
    /\ UNCHANGED notSize

\* The window is resized: every listener runs, and the handleResize of the
\* mounted component sets the state to the new dimensions.
Resize(size) ==
    /\ size # inner
    /\ inner' = size
    /\ lastResize' = [seen |-> TRUE, updates |-> Cardinality(listeners)]
    /\ IF wsMounted /\ listeners # {}
       THEN nextWindowSize' = measured(size)
       ELSE UNCHANGED nextWindowSize
    /\ UNCHANGED <<wsMounted, windowSize, listeners, handler, effectRuns>>
    /\ UNCHANGED notSize

\* The component unmounts: the cleanup removes the handleResize of its run.
UnmountWindowSize ==
    /\ wsMounted
    /\ wsMounted' = FALSE
    /\ listeners' = removed(listeners, handler)
    /\ handler' = 0
    /\ windowSize' = Unmeasured
    /\ nextWindowSize' = Unmeasured
    /\ lastResize' = NoResize
    /\ UNCHANGED <<inner, effectRuns>>
    /\ UNCHANGED notSize

InitSize ==
    /\ wsMounted = FALSE
    /\ windowSize = Unmeasured
    /\ nextWindowSize = Unmeasured
    /\ inner = [width |-> 800, height |-> 600]
    /\ listeners = {}
    /\ handler = 0
    /\ effectRuns = 0
    /\ lastResize = NoResize

NextSize ==
    \/ MountWindowSize
    \/ UnmountWindowSize
    \/ RenderWindowSize
    \/ \E size \in Sizes : Resize(size)

(***************************************************************************)
(* ApiPage: the effect on [userId].  With userId null it sets user to null *)
(* and returns no cleanup; otherwise it makes an isMounted flag and calls  *)
(* fetchUser(), which is suspended at `await fetch(...)`, at               *)
(* `await response.json()` and, its flag still set after that, at          *)
(* `await sleep(1000)`.                                                    *)
(***************************************************************************)
\* the ids of the buttons of the page
UserIds == {1, 2}

NoUser == [run |-> 0, id |-> 0]

NoUserError == [set |-> FALSE, message |-> <<>>]

\* what response.json() of run i yields
UserData(i) == [run |-> i, id |-> runs[i].userId]

\* error.message of what run i caught
UserError(message) == [set |-> TRUE, message |-> message]

\* a run of the effect that fetches
UserRun(id) == [userId |-> id, isMounted |-> TRUE, at |-> "fetch"]

\* run i goes on to another await, or returns
userRunAt(i, at) == runs' = [runs EXCEPT ![i].at = at]

\* catch (error): if (isMounted) setUserError(error.message)
onUserCatch(i, message) ==
    IF runs[i].isMounted THEN userError' = UserError(message) ELSE UNCHANGED userError

\* finally: if (isMounted) setUserLoading(false)
onUserFinally(i) ==
    IF runs[i].isMounted THEN userLoading' = FALSE ELSE UNCHANGED userLoading

\* An ApiPage mounts: the effect runs with userId null.
MountApiPage ==
    /\ ~apiMounted
    /\ apiMounted' = TRUE
    /\ userId' = 0
    /\ user' = NoUser
    /\ userLoading' = FALSE
    /\ userError' = NoUserError
    /\ UNCHANGED runs
    /\ UNCHANGED notUser

\* setUserId(id) and the render that follows: the cleanup of the last run
\* if it had one, then the effect again.  With a user id: isMounted = true,
\* setUserLoading(true), setUserError(null), fetch.
SelectUser(id) ==
    /\ apiMounted
    /\ id # userId
    /\ userId' = id
    /\ LET cleaned == IF userId # 0 THEN cleanup(runs) ELSE runs
       IN  IF id = 0
           THEN /\ user' = NoUser
                /\ runs' = cleaned
                /\ UNCHANGED <<userLoading, userError>>
           ELSE /\ Len(runs) < MaxUserRuns
                /\ userLoading' = TRUE
                /\ userError' = NoUserError
                /\ runs' = Append(cleaned, UserRun(id))
                /\ UNCHANGED user
    /\ UNCHANGED apiMounted
    /\ UNCHANGED notUser

\* The page unmounts: the cleanup of the last run if it had one.
UnmountApiPage ==
    /\ apiMounted
    /\ apiMounted' = FALSE
    /\ userId' = 0
    /\ runs' = IF userId # 0 THEN cleanup(runs) ELSE runs
    /\ UNCHANGED <<user, userLoading, userError>>
    /\ UNCHANGED notUser

\* fetch() of run i rejects: catch, finally.
UserFetchRejects(i) ==
    /\ runs[i].at = "fetch"
    /\ onUserCatch(i, <<>>)
    /\ onUserFinally(i)
    /\ userRunAt(i, "done")
    /\ UNCHANGED <<apiMounted, userId, user>>
    /\ UNCHANGED notUser

\* fetch() of run i resolves: a status that is not ok is thrown as an
\* Error; otherwise fetchUser awaits response.json().
UserFetchResolves(i, status) ==
    /\ runs[i].at = "fetch"
    /\ IF responseOk(status)
       THEN /\ userRunAt(i, "json")
            /\ UNCHANGED <<userLoading, userError>>
       ELSE /\ onUserCatch(i, httpMessage(status))
            /\ onUserFinally(i)
            /\ userRunAt(i, "done")
    /\ UNCHANGED <<apiMounted, userId, user>>
    /\ UNCHANGED notUser

\* response.json() of run i resolves: if (isMounted) fetchUser awaits
\* sleep(1000); otherwise it goes to its finally.
UserJsonResolves(i) ==
    /\ runs[i].at = "json"
    /\ IF runs[i].isMounted
       THEN /\ userRunAt(i, "sleep")
            /\ UNCHANGED userLoading
       ELSE /\ onUserFinally(i)
            /\ userRunAt(i, "done")
    /\ UNCHANGED <<apiMounted, userId, user, userError>>
    /\ UNCHANGED notUser

\* response.json() of run i rejects: catch, finally.
UserJsonRejects(i) ==
    /\ runs[i].at = "json"
    /\ onUserCatch(i, <<>>)
    /\ onUserFinally(i)
    /\ userRunAt(i, "done")
    /\ UNCHANGED <<apiMounted, userId, user>>
    /\ UNCHANGED notUser

\* sleep(1000) of run i is over: setUser(data), which no test of isMounted
\* precedes here, then finally.
SleepEnds(i) ==
    /\ runs[i].at = "sleep"
    /\ user' = UserData(i)
    /\ onUserFinally(i)
    /\ userRunAt(i, "done")
    /\ UNCHANGED <<apiMounted, userId, userError>>
    /\ UNCHANGED notUser

InitUser ==
    /\ apiMounted = FALSE
    /\ userId = 0
    /\ user = NoUser
    /\ userLoading = FALSE
    /\ userError = NoUserError
    /\ runs = <<>>

NextUser ==
    \/ MountApiPage
    \/ UnmountApiPage
    \/ \E id \in UserIds \cup {0} : SelectUser(id)
    \/ \E i \in 1..Len(runs) : UserFetchRejects(i)
    \/ \E i \in 1..Len(runs), status \in Statuses : UserFetchResolves(i, status)
    \/ \E i \in 1..Len(runs) : UserJsonResolves(i)
    \/ \E i \in 1..Len(runs) : UserJsonRejects(i)
    \/ \E i \in 1..Len(runs) : SleepEnds(i)

(***************************************************************************)
(* Specifications.                                                         *)
(***************************************************************************)
Init == InitTodos /\ InitFetch /\ InitStorage /\ InitTimer /\ InitSize /\ InitUser

SpecTodos == Init /\ [][NextTodos]_vars

SpecTodosFaulty == Init /\ [][NextTodosFaulty]_vars

SpecFetch == Init /\ [][NextFetch]_vars

SpecStorage == Init /\ [][NextStorage]_vars

SpecTimer == Init /\ [][NextTimer]_vars

SpecSize == Init /\ [][NextSize]_vars

SpecUser == Init /\ [][NextUser]_vars

(***************************************************************************)
(* Properties of useTodos.                                                 *)
(***************************************************************************)
\* every character of raw is white space
Blank(raw) == \A i \in 1..Len(raw) : raw[i] \in WhiteSpace

\* t is raw without the white space at its two ends
IsTrimOf(t, raw) ==
    /\ t = <<>> \/ (t[1] \notin WhiteSpace /\ Last(t) \notin WhiteSpace)
    /\ \E l \in 0..Len(raw) :
          /\ l + Len(t) <= Len(raw)
          /\ SubSeq(raw, l + 1, l + Len(t)) = t
          /\ \A i \in (1..l) \cup ((l + Len(t) + 1)..Len(raw)) : raw[i] \in WhiteSpace

IdsOf(ts) == {ts[i].id : i \in 1..Len(ts)}

\* the positions of ts whose record is not completed
ActiveAt(ts) == {i \in 1..Len(ts) : ~ts[i].completed}

\* the k-th smallest element of a set of positions
Nth(S, k) == CHOOSE i \in S : Cardinality({j \in S : j <= i}) = k

\* C2: in every state the statistics of the rendered collection add up:
\* active + completed = total, total is the size of the collection and
\* completed the number of records whose flag is set.
C2_StatsAddUp ==
    /\ stats.active + stats.completed = stats.total
    /\ stats.total = Len(todos)
    /\ stats.completed = Cardinality({i \in 1..Len(todos) : todos[i].completed})

\* a render has applied a mutation and left both completed and active records
C2_Witness ==
    /\ mounted
    /\ committed # NoCall
    /\ stats.completed > 0
    /\ stats.active > 0

\* C3: whenever a useTodos instance is alive, a fresh instance initialised
\* from what is stored under 'todos' gets the collection of the alive one,
\* record for record and in order.
C3_RoundTrip ==
    mounted =>
        LET fresh == initialTodos(localStorage["todos"])
        IN  fresh.ok /\ fresh.val = todos

\* a mutation was rendered and saved: two records, one of them with a text
\* that needs escaping
C3_Witness ==
    /\ mounted
    /\ committed # NoCall
    /\ Len(todos) = 2
    /\ \E i \in 1..2 : todos[i].text = <<"\"", " ", "\\">>
    /\ \E i \in 1..2 : todos[i].completed
    /\ initialTodos(localStorage["todos"]).val = todos

\* C4: no two records of the collection share an id.
C4_UniqueIds ==
    \A i, j \in 1..Len(todos) : i # j => todos[i].id # todos[j].id

\* C5: addTodo(text) with a blank text enqueues no update; otherwise the
\* collection it produces is the rendered one with exactly one record
\* appended, whose text is the trimmed input and which is not completed.
C5_AddTodo ==
    (pending.set /\ pending.call.op = "addTodo") =>
        /\ ~Blank(pending.call.text)
        /\ Len(pending.value) = Len(todos) + 1
        /\ SubSeq(pending.value, 1, Len(todos)) = todos
        /\ IsTrimOf(Last(pending.value).text, pending.call.text)
        /\ Last(pending.value).text # <<>>
        /\ Last(pending.value).completed = FALSE

\* a padded text was added to a non-empty collection and rendered
C5_Witness ==
    /\ mounted
    /\ committed = Call("addTodo", <<>>, <<" ", "a", "\t">>)
    /\ Len(prevTodos) = 1
    /\ Len(todos) = 2
    /\ todos[1] = prevTodos[1]
    /\ todos[2].text = <<"a">>
    /\ ~todos[2].completed

\* C6: when the last render applied toggleTodo(id), a second toggleTodo(id)
\* produces the collection as it was before the first.
C6_ToggleTwice ==
    (pending.set /\ pending.call.op = "toggleTodo" /\ committed = pending.call)
        => pending.value = prevTodos

\* toggleTodo(id) was rendered, it changed a record, and it is called again
C6_Witness ==
    /\ pending.set
    /\ pending.call.op = "toggleTodo"
    /\ committed = pending.call
    /\ pending.call.id \in IdsOf(todos)
    /\ todos # prevTodos
    /\ Len(todos) = 2
    /\ pending.value = prevTodos

\* C7: toggleTodo, editTodo and deleteTodo with an id no record has produce
\* the rendered collection again, and nothing is thrown.
C7_UnknownId ==
    /\ ~uncaught
    /\ (/\ pending.set
        /\ pending.call.op \in {"toggleTodo", "editTodo", "deleteTodo"}
        /\ pending.call.id \notin IdsOf(todos))
            => pending.value = todos

\* deleteTodo was called with an id none of the two records has
C7_Witness ==
    /\ pending.set
    /\ pending.call.op = "deleteTodo"
    /\ pending.call.id \notin IdsOf(todos)
    /\ Len(todos) = 2
    /\ pending.value = todos
    /\ ~uncaught

\* C8: every text of the collection, rendered or produced by a call, is
\* non-empty and has no white space at either end.
C8_TextTrimmed ==
    \A ts \in {todos, pending.value} :
        \A i \in 1..Len(ts) :
            /\ ts[i].text # <<>>
            /\ ts[i].text[1] \notin WhiteSpace
            /\ Last(ts[i].text) \notin WhiteSpace

\* editTodo with a padded text was rendered and its record holds the trimmed text
C8_Witness ==
    /\ mounted
    /\ committed.op = "editTodo"
    /\ committed.text = <<" ", "a", "\t">>
    /\ \E i \in 1..Len(todos) :
          /\ todos[i].id = committed.id
          /\ todos[i].text = <<"a">>
          /\ prevTodos[i].text # <<"a">>

\* C9: editTodo(id, newText) with a blank newText enqueues no update;
\* otherwise the collection it produces has the size and order of the
\* rendered one, the records with that id get the trimmed text and keep id
\* and completed, and every other record is the same.
C9_EditTodo ==
    (pending.set /\ pending.call.op = "editTodo") =>
        /\ ~Blank(pending.call.text)
        /\ Len(pending.value) = Len(todos)
        /\ \A i \in 1..Len(todos) :
              IF todos[i].id = pending.call.id
              THEN /\ pending.value[i].id = pending.call.id
                   /\ pending.value[i].completed = todos[i].completed
                   /\ IsTrimOf(pending.value[i].text, pending.call.text)
              ELSE pending.value[i] = todos[i]

\* the text of a completed record was edited, next to another record
C9_Witness ==
    /\ mounted
    /\ committed.op = "editTodo"
    /\ Len(todos) = 2
    /\ \E i, j \in 1..2 :
          /\ todos[i].id = committed.id
          /\ todos[i].completed
          /\ todos[i].text # prevTodos[i].text
          /\ todos[j].id # committed.id
          /\ todos[j] = prevTodos[j]

\* C10: clearCompleted produces the records that are not completed, in their
\* order; once it is rendered stats.completed is 0; called again, it
\* produces the rendered collection.
C10_ClearCompleted ==
    /\ (pending.set /\ pending.call.op = "clearCompleted") =>
          /\ Len(pending.value) = Cardinality(ActiveAt(todos))
          /\ \A k \in 1..Len(pending.value) :
                pending.value[k] = todos[Nth(ActiveAt(todos), k)]
    /\ (mounted /\ committed.op = "clearCompleted") => stats.completed = 0
    /\ (pending.set /\ pending.call.op = "clearCompleted"
            /\ committed.op = "clearCompleted") => pending.value = todos

\* clearCompleted removed a completed record and kept an active one, and
\* is called a second time
C10_Witness ==
    /\ pending.set
    /\ pending.call.op = "clearCompleted"
    /\ committed.op = "clearCompleted"
    /\ Len(prevTodos) = 2
    /\ Len(todos) = 1
    /\ \E i \in 1..2 : prevTodos[i].completed
    /\ pending.value = todos

(***************************************************************************)
(* Properties of useLocalStorage.                                          *)
(***************************************************************************)
\* C11: once an instance has stored a value v under key k with setValue
\* and is gone, a new instance with the same key, whatever its default, has
\* v as its initial value (the read of the storage succeeding).
C11_StorageRoundTrip ==
    (lsMounted /\ untouched /\ ~readThrew /\ written[key].hook)
        => storedValue = written[key].value

\* an instance with default "b" starts with r" that an earlier instance
\* stored
C11_Witness ==
    /\ lsMounted /\ untouched /\ ~readThrew
    /\ written[key].hook
    /\ written[key].value = <<"r", "\"">>
    /\ initialValue = <<"b">>
    /\ storedValue = <<"r", "\"">>

\* C12: right after a setValue call whose write succeeded, the text under
\* the key parses to the value the state now holds (the one handed to
\* setStoredValue, which the next render shows).
C12_StoredIsInMemory ==
    (lsMounted /\ batch # <<>> /\ Last(batch).stored)
        => /\ lsPending.set
           /\ parseText(localStorage[key]).ok
           /\ parseText(localStorage[key]).val = lsPending.value

C12_Witness ==
    /\ lsMounted /\ batch # <<>> /\ Last(batch).stored
    /\ lsPending.value = <<"r", "\"">>
    /\ localStorage[key] = <<Quote, "r", "\\\"", Quote>>

\* C13: setValue(f) and then setValue(g), f and g functions, with no render
\* in between leave g(f(v)) in the state and, the second write succeeding,
\* in the storage, v being the value before the two calls.
C13_UpdaterOnLatest ==
    (lsMounted /\ Len(batch) = 2 /\ batch[1].isFunction /\ batch[2].isFunction)
        => LET gfv == (storedValue \o batch[1].value) \o batch[2].value
           IN  /\ lsPending.value = gfv
               /\ batch[2].stored =>
                     /\ parseText(localStorage[key]).ok
                     /\ parseText(localStorage[key]).val = gfv

\* C14: a setValue whose setItem throws lets no exception escape, has
\* still updated the state (to the value passed, or for the first call
\* after a render to the function's result), and leaves the storage as it
\* was.
C14_WriteFailureCaught ==
    [][ (lsMounted /\ Len(batch') = Len(batch) + 1 /\ ~Last(batch').stored)
          => /\ ~lsUncaught'
             /\ lsPending'.set
             /\ ~Last(batch').isFunction => lsPending'.value = Last(batch').value
             /\ (Last(batch').isFunction /\ batch = <<>>)
                   => lsPending'.value = storedValue \o Last(batch').value
             /\ localStorage' = localStorage ]_vars

\* setValue("r") failed to write over the !" an earlier call had stored
C14_Witness ==
    /\ lsMounted /\ batch # <<>> /\ ~Last(batch).stored
    /\ ~Last(batch).isFunction
    /\ lsPending.value = <<"r">>
    /\ written[key].hook
    /\ localStorage[key] = stringifyString(<<"!", "\"">>)
    /\ ~lsUncaught

\* C15: no exception escapes the initialiser, and the initial value is the
\* default when getItem throws, when nothing is stored and when what is
\* stored does not parse, and the parsed value otherwise.
C15_Initialisation ==
    /\ ~lsUncaught
    /\ (lsMounted /\ untouched) =>
          LET text == localStorage[key]
          IN  IF readThrew \/ text = Absent \/ ~parseText(text).ok
              THEN storedValue = initialValue
              ELSE storedValue = parseText(text).val

\* an instance that found a string that is not closed starts with its default
C15_Witness ==
    /\ lsMounted /\ untouched /\ ~readThrew
    /\ localStorage[key] = <<Quote, "g">>
    /\ initialValue = <<"b">>
    /\ storedValue = <<"b">>

(***************************************************************************)
(* Properties of useFetch.                                                 *)
(***************************************************************************)
\* request i is not the one of the current key any more
Superseded(i) == i < Len(requests)

\* C1: a request that settles after it was superseded writes none of data,
\* error and loading; and once the request of the current key has returned,
\* data and error are the outcome of that request, whatever the order in
\* which the requests settled.
C1_RaceSafety ==
    /\ [][\A i \in 1..Len(requests) :
             (Superseded(i) /\ Settles(i)) => UNCHANGED <<data, error, loading>>]_vars
    /\ [](\A n \in 1..MaxRequests :
             (fetching /\ Len(requests) = n /\ requests[n].at = "done") =>
                 /\ requests[n].outcome = "data" =>
                       (data = Json(n) /\ error = NoError)
                 /\ requests[n].outcome = "error" =>
                       (data = NoData /\ error.req = n))

\* the key changed from A to B while A's request was suspended; B's request
\* returned first with an error, A's returned after it with data
C1_Witness ==
    /\ fetching
    /\ Len(requests) = 2
    /\ requests[1].key = "A" /\ requests[2].key = "B"
    /\ requests[1].outcome = "data" /\ requests[1].rank = 2
    /\ requests[2].outcome = "error" /\ requests[2].rank = 1
    /\ error.req = 2
    /\ data = NoData
    /\ ~loading

\* the run of the effect for the current key, while the component is mounted
Current == Last(requests)

\* C16: data and error are never both set, whatever the interleaving of
\* key changes and completions.
C16_DataXorError == ~(data # NoData /\ error # NoError)

\* the request for A stored its data, the key changed to B, and B's request
\* failed: the error is stored and the data of A is gone
C16_Witness ==
    /\ fetching
    /\ Len(requests) = 2
    /\ requests[1].outcome = "data" /\ requests[1].rank = 1
    /\ requests[2].outcome = "error" /\ requests[2].isMounted
    /\ error # NoError
    /\ data = NoData

\* C17: while the request started for a new key has not resolved, loading
\* is true and error is null, and that request is the only live one and is
\* for the current key.
C17_NewKeyResets ==
    (fetching /\ Current.at = "fetch")
        => /\ loading
           /\ error = NoError
           /\ Current.key = url
           /\ {i \in 1..Len(requests) : requests[i].isMounted} = {Len(requests)}

\* C18: when the request for the current key ends, with data or with an
\* error, while it is the current one, loading becomes false; and as long
\* as it is suspended loading is true.
C18_Loading ==
    /\ [][ (fetching /\ fetching' /\ url' = url /\ Len(requests') = Len(requests)
            /\ Current.at # "done" /\ Last(requests').at = "done")
              => ~loading' ]_vars
    /\ []((fetching /\ Current.at # "done") => loading)

\* the requests for A and B failed in their turn, and the one for A, now
\* current again, is suspended at response.json(): loading is true
C18_Witness ==
    /\ fetching
    /\ Len(requests) = 3
    /\ requests[1].outcome = "error" /\ requests[1].rank = 1
    /\ requests[2].outcome = "error" /\ requests[2].rank = 2
    /\ Current.at = "json"
    /\ loading

\* C19: a response whose status is not a success is not parsed: the run
\* ends in its catch without awaiting response.json(), and if it is the
\* current one error is the Error "HTTP error! Status: <status>", data is
\* null and loading is false.  Every run that ended did so with data or in
\* its catch.
C19_HttpError ==
    \A i \in 1..Len(requests) :
        /\ requests[i].at = "done" => requests[i].outcome \in {"data", "error"}
        /\ (requests[i].status # 0 /\ ~(200 <= requests[i].status /\ requests[i].status <= 299))
              => /\ requests[i].at = "done"
                 /\ requests[i].outcome = "error"
                 /\ (fetching /\ i = Len(requests))
                       => /\ error.name = "Error"
                          /\ error.message = HttpErrorPrefix \o toString(requests[i].status)
                          /\ data = NoData
                          /\ ~loading

\* the request for B, started when A's data was there, got a 404
C19_Witness ==
    /\ fetching
    /\ Len(requests) = 2
    /\ requests[1].outcome = "data" /\ requests[1].rank = 1
    /\ Current.status = 404
    /\ error.message = <<"H", "T", "T", "P", " ", "e", "r", "r", "o", "r", "!", " ",
                         "S", "t", "a", "t", "u", "s", ":", " ", "4", "0", "4">>
    /\ data = NoData
    /\ ~loading

\* C20: once the component is unmounted, the completion of a request that
\* was in flight writes none of data, error and loading.
C20_UnmountedWritesNothing ==
    [][ (~fetching /\ ~fetching') => UNCHANGED <<data, error, loading>> ]_vars

\* a request ended with data after the unmount: loading is still true and
\* data still null
C20_Witness ==
    /\ ~fetching
    /\ requests # <<>>
    /\ Current.at = "done" /\ Current.outcome = "data"
    /\ ~Current.isMounted
    /\ loading
    /\ data = NoData

(***************************************************************************)
(* Properties of useTimer and TimerComponent.                              *)
(***************************************************************************)
\* C21: every callback of the running timer adds exactly 1 to seconds, so
\* seconds is its initial value plus the callbacks run since it had that
\* value; and while the timer is stopped, the periods that go by leave
\* seconds as it is.
C21_Counting ==
    /\ [](tmMounted => nextSeconds = initialSeconds + ticks)
    /\ [][ (tmMounted /\ ~isActive /\ elapsed' = elapsed + 1)
              => (seconds' = seconds /\ nextSeconds' = nextSeconds) ]_vars

\* started from 2, run for two periods, paused at 4, and a third period
\* has gone by
C21_Witness ==
    /\ tmMounted
    /\ initialSeconds = 2
    /\ ~isActive /\ ~nextIsActive
    /\ Len(intervals) = 1 /\ intervals[1].cleared = 1
    /\ elapsed = 3
    /\ seconds = 4 /\ nextSeconds = 4

\* C22: after reset(), and until start() is called, the timer is stopped
\* and seconds is the initial value: no callback adds to it.
C22_Reset ==
    (tmMounted /\ wasReset) => (~nextIsActive /\ nextSeconds = initialSeconds)

\* the timers each component has running
Running(owner) ==
    IF owner = "useTimer"
    THEN (IF tmMounted /\ isActive THEN {interval} ELSE {})
    ELSE (IF tcMounted THEN {tcInterval} ELSE {})

\* C23: a component has a timer running exactly when it is mounted and, for
\* useTimer, active, and then only one: every other timer made so far was
\* cleared, and cleared once.
C23_OneInterval ==
    \A i \in 1..Len(intervals) :
        intervals[i].cleared = (IF i \in Running(intervals[i].owner) THEN 0 ELSE 1)

\* useTimer was started, paused and started again while a TimerComponent
\* was shown and hidden
C23_Witness ==
    /\ tmMounted /\ isActive
    /\ ~tcMounted
    /\ Len(intervals) = 3
    /\ interval = 3
    /\ Cardinality(Active("useTimer")) = 1
    /\ Active("TimerComponent") = {}

(***************************************************************************)
(* Properties of useWindowSize.                                            *)
(***************************************************************************)
\* C24: from the mount effect on, and after every resize event, the state
\* holds the window's dimensions (the next render shows them; a render
\* with nothing enqueued shows them already), and a resize event makes one
\* state update.
C24_TracksWindow ==
    wsMounted =>
        /\ nextWindowSize = inner
        /\ (windowSize = nextWindowSize => windowSize = inner)
        /\ lastResize.seen => lastResize.updates = 1

\* mounted at 800x600 and never rendered again, then resized to 360x640
C24_Witness ==
    /\ wsMounted
    /\ lastResize.seen
    /\ inner = [width |-> 360, height |-> 640]
    /\ nextWindowSize = [width |-> 360, height |-> 640]
    /\ windowSize = Unmeasured

\* C25: the window has one resize listener, the one of the current effect
\* run, while the component is mounted and none while it is not, so a
\* resize event updates the state of a mounted component once, also after a
\* re-mount, and does nothing after the unmount.
C25_OneListener ==
    /\ listeners = (IF wsMounted THEN {handler} ELSE {})
    /\ lastResize.seen => lastResize.updates = (IF wsMounted THEN 1 ELSE 0)

\* the window was resized after the second unmount
C25_Witness ==
    /\ ~wsMounted
    /\ effectRuns = 2
    /\ lastResize.seen
    /\ lastResize.updates = 0
    /\ listeners = {}

(***************************************************************************)
(* Properties of useTodos: calls between two renders, and a storage that   *)
(* fails.                                                                  *)
(***************************************************************************)
\* C26: the collection the next render will show is the one obtained by
\* applying the calls made since the last render one after the other, each
\* to the result of the one before.
C26_CallOrder ==
    (mounted /\ pending.set) => pending.value = inOrder

\* C29: no mutation is applied while the collection the mutation before it
\* produced is still to be written: at most one update is enqueued between
\* two writes of the snapshot.
C29_SnapshotPerMutation ==
    mounted => calls <= 1

\* C27: when the text under 'todos' does not parse, the initialiser lets
\* no exception escape and the store starts with the empty collection.
C27_MalformedTodos ==
    fault = "read" => (~uncaught /\ mounted /\ todos = <<>>)

\* what a call made of the collection ts
Mutated(call, ts, result) ==
    /\ call.op = "addTodo" =>
          /\ Len(result) = Len(ts) + 1
          /\ SubSeq(result, 1, Len(ts)) = ts
          /\ Last(result).text = trim(call.text)
    /\ call.op = "toggleTodo" => result = toggled(ts, call.id)
    /\ call.op = "editTodo" => result = edited(ts, call.id, call.text)
    /\ call.op = "deleteTodo" => result = deleted(ts, call.id)
    /\ call.op = "clearCompleted" => result = cleared(ts)

\* C30: when setItem throws in the write that follows a mutation, no
\* exception escapes, the collection in memory is the mutated one, and the
\* store goes on working.
C30_WriteFailureContained ==
    fault = "write" =>
        /\ ~uncaught
        /\ mounted
        /\ Mutated(committed, prevTodos, todos)

(***************************************************************************)
(* Properties of ApiPage's conditional fetch.                              *)
(***************************************************************************)
\* C28: a run of the effect that was cleaned up writes none of user,
\* userError and userLoading, whichever await it resumes from.
C28_CleanedUpRunWritesNothing ==
    [][ \A i \in 1..Len(runs) :
            (~runs[i].isMounted /\ Len(runs') = Len(runs) /\ runs'[i].at # runs[i].at)
                => UNCHANGED <<user, userError, userLoading>> ]_vars

=============================================================================
